---- MODULE Spec2Model ----
(***************************************************************************)
(* FluidSynthApi of fluidsynthgui.py: the socket client of a FluidSynth    *)
(* engine and its sound-font / channel bookkeeping.                        *)
(*                                                                         *)
(* Text is modelled by TLA+ strings, used as sequences of characters       *)
(* (Len, SubSeq, \o).  The socket is a byte stream: `stream` holds the     *)
(* engine's writes that the client has not read yet, in order.             *)
(***************************************************************************)
EXTENDS Integers, Sequences, FiniteSets, TLC

VARIABLES
    \* ---- FluidSynthApi fields (src __init__) ----
    fontFilesLoaded,      \* font_id -> font_file
    fontsInUse,           \* 16 slots, font id per channel, -1 = none
    instrumentsInUse,     \* 16 slots, instrument name per channel
    selectedChannel,      \* base 1
    activeChannel,        \* base 1
    activeSoundFontId,
    activeSoundFontFile,
    activeInstrument,
    fluidsynth,           \* self.fluidsynth: the FluidSynth process, or "None"
    args,                 \* self.args: commands to run at construction
    \* ---- where the constructor is ----
    pc,                   \* "connect", "spawn", "retry", "giveup", "args", "ready", "raised"
    retry,                \* the i of the retry loop of initFluidSynth
    initRet,              \* what initFluidSynth returned, "None" before it returns
    \* ---- the socket and the engine behind it ----
    sockets,              \* every socket created so far, by creation order: its state
    clientsocket,         \* self.clientsocket: index into sockets, 0 = not set
    sock,                 \* state of self.clientsocket
    stream,               \* engine writes not yet read by the client
    efonts,               \* sound fonts loaded at the engine: id -> file
    enext,                \* id the engine gives to the next font it loads
    egain,                \* the engine's variable synth.gain, in thousandths
    slowCalls,            \* calls so far during which the engine was slow
    \* ---- what the last call did (observation only) ----
    op,                   \* name of the API call that just returned, or "idle"
    arg,                  \* its argument
    ret,                  \* its return value
    raised,               \* TRUE when an exception reached the caller
    sent,                 \* the packets it wrote to the socket, in order
    reads,                \* one record per read() it made
    attempts,             \* the outcome of every connect() so far, in order
    spawns,               \* number of processes started
    sleeps,               \* number of time.sleep(.5) calls
    ioSockets,            \* the sockets that carried a send or a recv
    \* ---- locals of read() while its loop runs ----
    read_i,               \* i: number of recv calls made
    read_data,            \* data: what has been accumulated
    recvd                 \* what each recv call returned, in order

\* ------------------------------------------------------------------ bounds
\* The engine stops accepting loads once it has handed out this many ids.
MaxFontId == 2
\* The engine is slow (answers may miss the read timeout) in so many calls.
MaxSlowCalls == 1

\* ------------------------------------------------------ program constants
NumChannels == 16

\* --------------------------------------------------------- Python strings
Char(s, i) == SubSeq(s, i, i)

Whitespace == {" ", "\n", "\t", "\r"}

DigitChars == {"0", "1", "2", "3", "4", "5", "6", "7", "8", "9"}

DigitVal(c) ==
    CASE c = "0" -> 0 [] c = "1" -> 1 [] c = "2" -> 2 [] c = "3" -> 3
      [] c = "4" -> 4 [] c = "5" -> 5 [] c = "6" -> 6 [] c = "7" -> 7
      [] c = "8" -> 8 [] c = "9" -> 9

DigitChar(d) ==
    CASE d = 0 -> "0" [] d = 1 -> "1" [] d = 2 -> "2" [] d = 3 -> "3"
      [] d = 4 -> "4" [] d = 5 -> "5" [] d = 6 -> "6" [] d = 7 -> "7"
      [] d = 8 -> "8" [] d = 9 -> "9"

SetMin(S) == CHOOSE x \in S : \A y \in S : x <= y

\* str.find(sub): lowest 0-based index of sub in s, -1 when absent
find(s, sub) ==
    LET hits == {k \in 0..(Len(s) - Len(sub)) : SubSeq(s, k + 1, k + Len(sub)) = sub}
    IN  IF hits = {} THEN -1 ELSE SetMin(hits)

\* the k-th smallest element of a set of integers
Nth(S, k) == CHOOSE i \in S : Cardinality({x \in S : x <= i}) = k

\* str.split(): the maximal runs of non-whitespace characters
RECURSIVE splitFrom(_, _)
splitFrom(s, i) ==
    LET starts == {j \in i..Len(s) : Char(s, j) \notin Whitespace}
    IN  IF starts = {} THEN <<>>
        ELSE LET b == SetMin(starts)
                 e == SetMin({j \in b..Len(s) : j = Len(s) \/ Char(s, j + 1) \in Whitespace})
             IN  <<SubSeq(s, b, e)>> \o splitFrom(s, e + 1)

split(s) == splitFrom(s, 1)

\* str.split(sep) for a one-character separator: empty fields are kept
splitOn(s, sep) ==
    LET seps     == {i \in 1..Len(s) : Char(s, i) = sep}
        n        == Cardinality(seps)
        sepAt(k) == IF k = 0 THEN 0 ELSE IF k = n + 1 THEN Len(s) + 1 ELSE Nth(seps, k)
    IN  [k \in 1..(n + 1) |-> SubSeq(s, sepAt(k - 1) + 1, sepAt(k) - 1)]

\* str.splitlines(): the lines without their "\n"; no empty line after the
\* last terminator
splitlines(s) ==
    LET f == splitOn(s, "\n")
    IN  IF f[Len(f)] = "" THEN SubSeq(f, 1, Len(f) - 1) ELSE f

\* str.isdigit(): non-empty and every character a digit
isdigit(s) == Len(s) > 0 /\ \A i \in 1..Len(s) : Char(s, i) \in DigitChars

RECURSIVE digitsValue(_, _)
digitsValue(s, n) ==
    IF n = 0 THEN 0 ELSE 10 * digitsValue(s, n - 1) + DigitVal(Char(s, n))

\* int(s) succeeds on an optional sign followed by digits
isInt(s) ==
    IF Len(s) > 0 /\ Char(s, 1) \in {"+", "-"}
    THEN isdigit(SubSeq(s, 2, Len(s)))
    ELSE isdigit(s)

int(s) ==
    IF Char(s, 1) = "-" THEN 0 - digitsValue(SubSeq(s, 2, Len(s)), Len(s) - 1)
    ELSE IF Char(s, 1) = "+" THEN digitsValue(SubSeq(s, 2, Len(s)), Len(s) - 1)
    ELSE digitsValue(s, Len(s))

RECURSIVE strNat(_)
strNat(n) == IF n < 10 THEN DigitChar(n) ELSE strNat(n \div 10) \o DigitChar(n % 10)

\* str(n) of an integer
str(n) == IF n < 0 THEN "-" \o strNat(0 - n) ELSE strNat(n)

\* list[i] of Python: a negative index counts from the end; IndexError outside
IndexOk(n, i) == i >= 0 - n /\ i < n

Index1(n, i) == IF i < 0 THEN n + i + 1 ELSE i + 1

\* ------------------------------------------------------------ the engine
\* Sound font files the engine can open; any other file name fails to load.
GoodFiles == {"a.sf2", "b.sf2"}

\* `inst <id>`: one "BBB-PPP Name" line per preset of the font
InstListing(file) ==
    IF file = "a.sf2" THEN "000-000 Dark Violins\n000-012 Trumpet\n"
    ELSE "000-000 Dark Violins\n"

LoadWarning == "fluidsynth: warning: No preset found on channel 9 [bank=128 prog=0]\n"

UnloadWarning == "fluidsynth: warning: No preset found on channel 0 [bank=0 prog=0]\n"

\* `fonts`: a header line, then one " id  file" line per loaded font, by id
RECURSIVE FontsListing(_, _)
FontsListing(fonts, upto) ==
    IF upto = 0 THEN "ID  Name\n"
    ELSE FontsListing(fonts, upto - 1)
         \o (IF upto \in DOMAIN fonts
             THEN " " \o str(upto) \o "  " \o fonts[upto] \o "\n"
             ELSE "")

Unquote(tok) ==
    IF Len(tok) >= 2 /\ Char(tok, 1) = "\"" /\ Char(tok, Len(tok)) = "\""
    THEN SubSeq(tok, 2, Len(tok) - 1)
    ELSE tok

\* The engine executes one command line and answers on the socket.
\* `warn` says whether it prints the warning lines the source's comments show.
EngineExec(fonts, next, line, warn) ==
    LET same(out) == [fonts |-> fonts, next |-> next, out |-> out]
        load(file) ==
            IF file \in GoodFiles
            THEN [fonts |-> fonts @@ (next :> file),
                  next  |-> next + 1,
                  out   |-> "loaded SoundFont has ID " \o str(next) \o "\n"
                            \o (IF warn THEN LoadWarning ELSE "")]
            ELSE same("fluidsynth: error: Failed to load SoundFont\n")
        unload(id) ==
            IF id \in DOMAIN fonts
            THEN [fonts |-> [i \in DOMAIN fonts \ {id} |-> fonts[i]],
                  next  |-> next,
                  out   |-> IF warn THEN UnloadWarning ELSE ""]
            ELSE same("failed to unload the SoundFont\n")
        inst(id) ==
            IF id \in DOMAIN fonts THEN same(InstListing(fonts[id]))
            ELSE same("inst: invalid font number\n")
        \* the id an argument names; -1 (no font) when it is no number
        idOf(tok) == IF isInt(tok) THEN int(tok) ELSE -1
        \* command word c with first argument a ("" when there is none)
        run(c, a) ==
            CASE c = "echo"   -> same(Unquote(a) \o "\n")
              [] c = "load"   -> load(Unquote(a))
              [] c = "unload" -> unload(idOf(a))
              [] c = "fonts"  -> same(FontsListing(fonts, next))
              [] c = "inst"   -> inst(idOf(a))
              [] OTHER        -> same("")
        words(w) == run(IF Len(w) > 0 THEN w[1] ELSE "", IF Len(w) > 1 THEN w[2] ELSE "")
    IN  words(split(line))

\* synth.gain of an engine that was just started (0.2), in thousandths
DefaultGain == 200

\* the largest value synth.gain takes (10), in thousandths
MaxGain == 10000

\* A decimal number as the engine reads it, in thousandths; -1 when the text
\* is no number of at most three decimals.
ParseNum(text) ==
    LET dot == find(text, ".")
        whole(w) == IF isdigit(w) THEN digitsValue(w, Len(w)) * 1000 ELSE -1
        frac(f) ==
            IF f = "" THEN 0
            ELSE IF isdigit(f) /\ Len(f) <= 3
            THEN digitsValue(f \o SubSeq("00", 1, 3 - Len(f)), 3)
            ELSE -1
        both(w, f) == IF w < 0 \/ f < 0 THEN -1 ELSE w + f
    IN  IF dot = -1 THEN whole(text)
        ELSE both(whole(SubSeq(text, 1, dot)), frac(SubSeq(text, dot + 2, Len(text))))

\* a number in thousandths as the engine prints it: three decimals
Fixed3(n) ==
    str(n \div 1000) \o "." \o DigitChar((n \div 100) % 10)
        \o DigitChar((n \div 10) % 10) \o DigitChar(n % 10)

\* `set synth.gain <num>`: the value of the variable afterwards
EngineSet(gain, line) ==
    LET value(n) == IF n >= 0 /\ n <= MaxGain THEN n ELSE gain
        words(w) ==
            IF Len(w) = 3 /\ w[1] = "set" /\ w[2] = "synth.gain"
            THEN value(ParseNum(w[3]))
            ELSE gain
    IN  words(split(line))

\* `get synth.gain`: the answer
EngineGet(gain, line) ==
    LET words(w) ==
            IF Len(w) = 2 /\ w[1] = "get" /\ w[2] = "synth.gain"
            THEN Fixed3(gain) \o "\n"
            ELSE ""
    IN  words(split(line))

\* --------------------------------------------------------------- socket io
\* self.eof: arbitrary text to mark the end of stream from fluidsynth
eof == "."

\* mutant of send: the line is written whatever the state of the socket
send_Unchecked(s, packet) == [s EXCEPT !.sent = Append(@, packet)]

\* self.clientsocket.send(packet): raises unless the socket is connected.
\* The engine executes the line and its answer joins the unread stream.
send(s, packet) ==
    LET written(r, out) ==
            [s EXCEPT !.sent   = Append(@, packet),
                      !.efonts = r.fonts,
                      !.enext  = r.next,
                      !.egain  = EngineSet(@, packet),
                      !.stream = IF out = "" THEN @ ELSE Append(@, out),
                      !.out    = out]
        answered(r) == written(r, r.out \o EngineGet(s.egain, packet))
    IN  IF s.sock # "open"
        THEN [s EXCEPT !.exc = TRUE]
        ELSE answered(EngineExec(s.efonts, s.enext, packet, s.warn))

RECURSIVE Concat(_, _)
Concat(msgs, n) == IF n = 0 THEN "" ELSE Concat(msgs, n - 1) \o msgs[n]

Drop(msgs, n) == SubSeq(msgs, n + 1, Len(msgs))

\* data.find(eol + self.eof + eol)
findEof(data) == find(data, "\n" \o eof \o "\n")

\* read(): inject the end marker, then recv until the accumulated data holds
\* it.  The loop consumes the first n unread engine writes: it returns at the
\* recv that completes the marker (that recv may carry later writes too), or
\* recv times out after n writes and the exception handler returns the data.
read(s) ==
    LET received(s2, data, pos, n) ==
            [s2 EXCEPT !.stream = Drop(@, n),
                       !.ret    = IF pos > -1 THEN SubSeq(data, 1, pos) ELSE data,
                       !.reads  = Append(@, [data     |-> IF pos > -1
                                                          THEN SubSeq(data, 1, pos)
                                                          ELSE data,
                                             timedout |-> pos = -1,
                                             own      |-> s.out])]
        scan(s2, data, n) == received(s2, data, findEof(data), n)
        loop(s2) ==
            IF s2.exc THEN {s2}
            ELSE { scan(s2, Concat(s2.stream, n), n)
                   : n \in {k \in 0..Len(s2.stream) :
                              \/ findEof(Concat(s2.stream, k)) > -1
                              \/ s2.slow} }
        second(s1) == IF s1.exc THEN s1 ELSE send(s1, "echo " \o eof \o "\n")
        first(s1) == loop(second(s1))
    IN  first(send(s, "echo \"\"\n"))

\* mutant of cmd: the answer is read whatever non_blocking says
cmd_AlwaysReads(s, packet, non_blocking) ==
    LET sentPacket(s1) == IF s1.exc THEN {s1} ELSE read(s1)
    IN  sentPacket(send(s, packet \o "\n"))

\* cmd(packet, non_blocking): full request/response transaction
cmd(s, packet, non_blocking) ==
    LET sentPacket(s1) ==
            IF s1.exc THEN {s1}
            ELSE IF non_blocking THEN {[s1 EXCEPT !.ret = TRUE]}
            ELSE read(s1)
    IN  sentPacket(send(s, packet \o "\n"))

\* mutant of cmdNonBlocking: the answer is waited for
cmdNonBlocking_Waits(s, packet) == CHOOSE o \in cmd(s, packet, FALSE) : TRUE

\* A non-blocking cmd has exactly one outcome.
cmdNonBlocking(s, packet) == CHOOSE o \in cmd(s, packet, TRUE) : TRUE

\* ------------------------------------------------------ config variables
\* str(x) of a float x >= 0 given in thousandths: the decimals without
\* trailing zeros, at least one
strFloat(n) ==
    LET frac(f) ==
            IF f % 100 = 0 THEN DigitChar(f \div 100)
            ELSE IF f % 10 = 0 THEN DigitChar(f \div 100) \o DigitChar((f \div 10) % 10)
            ELSE DigitChar(f \div 100) \o DigitChar((f \div 10) % 10) \o DigitChar(f % 10)
    IN  str(n \div 1000) \o "." \o frac(n % 1000)

\* float(text) succeeds on the decimal numbers the engine prints (ValueError
\* otherwise); the value in thousandths
isFloat(text) == ParseNum(text) >= 0

float(text) == ParseNum(text)

\* setValue(key, value)
setValue(s, key, value) ==
    LET done(s1) == IF s1.exc THEN s1 ELSE [s1 EXCEPT !.ret = "None"]
    IN  done(cmdNonBlocking(s, "set " \o key \o " " \o value))

\* getValue(key): the last word of the answer, '' when there is none
getValue(s, key) ==
    LET last(o, values) ==
            [o EXCEPT !.ret = IF Len(values) > 0 THEN values[Len(values)] ELSE ""]
    IN  { IF o.exc THEN o ELSE last(o, split(o.ret))
          : o \in cmd(s, "get " \o key, FALSE) }

\* getNumValue(key): float(value) raises ValueError on a value that is no number
getNumValue(s, key) ==
    { IF o.exc THEN o
      ELSE IF isFloat(o.ret) THEN [o EXCEPT !.ret = float(@)]
      ELSE [o EXCEPT !.exc = TRUE]
      : o \in getValue(s, key) }

\* mutant of setGain: the variable is set to the value itself
setGain_NotDoubled(s, value) ==
    setValue(cmdNonBlocking(s, "gain " \o strFloat(value)), "synth.gain", strFloat(value))

\* setGain(value), for a float value given in thousandths
setGain(s, value) ==
    LET second(s1) ==
            IF s1.exc THEN s1 ELSE setValue(s1, "synth.gain", strFloat(value * 2))
    IN  second(cmdNonBlocking(s, "gain " \o strFloat(value)))

\* getGain(): the half of the value is computed and dropped, there is no
\* return statement
getGain(s) ==
    { IF o.exc THEN o ELSE [o EXCEPT !.ret = "None"]
      : o \in getNumValue(s, "synth.gain") }

\* ------------------------------------------------------- channel control
setSelectedChannel(s, channel) == [s EXCEPT !.selectedChannel = channel, !.ret = "None"]

getSelectedChannel(s) == s.selectedChannel

\* mutant of getSelectedChannel0: the channel is left 1-based
getSelectedChannel0_Base1(s) == s.selectedChannel

\* 0-based for fluidsynth
getSelectedChannel0(s) == s.selectedChannel - 1

\* ------------------------------------------------------------ sound fonts
\* mutant of loadSoundFont: the file is recorded before the answer is parsed
loadSoundFont_RecordsFirst(s, sf2Filename) ==
    { [o EXCEPT !.exc = FALSE, !.activeSoundFontFile = sf2Filename, !.ret = -1]
      : o \in cmd(s, "load \"" \o sf2Filename \o "\"", FALSE) }

\* loadSoundFont(sf2Filename): the id is the last all-digit word of the answer
loadSoundFont(s, sf2Filename) ==
    LET loaded(o, id) ==
            [o EXCEPT !.fontFilesLoaded = (id :> sf2Filename) @@ @,
                      !.activeSoundFontId = id,
                      !.activeSoundFontFile = sf2Filename,
                      !.ret = id]
        parsed(o, ids) ==
            IF Len(ids) > 0 THEN loaded(o, int(ids[Len(ids)]))
            ELSE [o EXCEPT !.ret = -1]
    IN  { IF o.exc THEN [o EXCEPT !.exc = FALSE, !.ret = -1]
          ELSE parsed(o, SelectSeq(split(o.ret), isdigit))
          : o \in cmd(s, "load \"" \o sf2Filename \o "\"", FALSE) }

\* mutant of parseFontIds: the first line that is skipped ends the parse
RECURSIVE parseFontIds_AbortsOnSkip(_, _)
parseFontIds_AbortsOnSkip(lines, n) ==
    LET line(parts) ==
            IF Len(parts) = 0 THEN <<>>
            ELSE IF ~isInt(parts[1]) THEN <<>>
            ELSE <<int(parts[1])>> \o parseFontIds_AbortsOnSkip(lines, n - 1)
    IN  IF n = 0 THEN <<>>
        ELSE line(split(lines[Len(lines) - n + 1]))

\* the loop of getSoundFonts over the lines of the `fonts` answer
RECURSIVE parseFontIds(_, _)
parseFontIds(lines, n) ==
    LET line(parts, rest) ==
            IF Len(parts) = 0 THEN rest              \* parts[0]: IndexError, skipped
            ELSE IF parts[1] = "ID" THEN rest
            ELSE IF isInt(parts[1]) THEN Append(rest, int(parts[1]))
            ELSE rest                                \* int(): ValueError, skipped
    IN  IF n = 0 THEN <<>>
        ELSE line(split(lines[n]), parseFontIds(lines, n - 1))

getSoundFonts(s) ==
    LET listed(o, ids) == [o EXCEPT !.ret = parseFontIds(ids, Len(ids))]
    IN  { IF o.exc THEN [o EXCEPT !.exc = FALSE, !.ret = <<>>]
          ELSE listed(o, splitlines(o.ret))
          : o \in cmd(s, "fonts", FALSE) }

\* mutant of InUse: the membership test misses the first channel
InUse_SkipsFirstChannel(id, inUse) == \E c \in 2..Len(inUse) : inUse[c] = id

\* `id in self.fontsInUse`
InUse(id, inUse) == \E c \in 1..Len(inUse) : inUse[c] = id

\* mutant of unloadLoop: the unload command is sent and the entry kept
RECURSIVE unloadLoop_KeepsEntry(_, _, _)
unloadLoop_KeepsEntry(s, ids, k) ==
    IF k > Len(ids) THEN s
    ELSE IF InUse(ids[k], s.fontsInUse) THEN unloadLoop_KeepsEntry(s, ids, k + 1)
    ELSE unloadLoop_KeepsEntry(cmdNonBlocking(s, "unload " \o str(ids[k])), ids, k + 1)

\* the loop of unloadSoundFonts from the k-th listed id on; an exception
\* (a failed send, `del` of a key the map does not hold) ends the loop
RECURSIVE unloadLoop(_, _, _)
unloadLoop(s, ids, k) ==
    LET unloaded(s1, id) ==
            IF s1.exc THEN s1
            ELSE IF id \notin DOMAIN s1.fontFilesLoaded
            THEN [s1 EXCEPT !.exc = TRUE]
            ELSE unloadLoop(
                   [s1 EXCEPT !.fontFilesLoaded = [i \in DOMAIN @ \ {id} |-> @[i]]],
                   ids, k + 1)
        step(id) ==
            IF InUse(id, s.fontsInUse) THEN unloadLoop(s, ids, k + 1)
            ELSE unloaded(cmdNonBlocking(s, "unload " \o str(id)), id)
    IN  IF k > Len(ids) THEN s ELSE step(ids[k])

\* mutant of unloadSoundFonts: the channel tables are reset
unloadSoundFonts_ResetsChannels(s) ==
    { [s EXCEPT !.fontsInUse = [c \in 1..NumChannels |-> -1],
                !.instrumentsInUse = [c \in 1..NumChannels |-> ""],
                !.ret = "None"] }

\* unloadSoundFonts(): remove unused soundfonts from memory
unloadSoundFonts(s) ==
    { [unloadLoop(o, o.ret, 1) EXCEPT !.exc = FALSE, !.ret = "None"]
      : o \in getSoundFonts(s) }

\* mutant of getInstruments: a negative id is asked for like any other
getInstruments_NoGuard(s, id) ==
    { IF o.exc THEN [o EXCEPT !.exc = FALSE, !.ret = <<>>]
      ELSE [o EXCEPT !.ret = splitlines(o.ret)]
      : o \in cmd(s, "inst " \o str(id), FALSE) }

\* getInstruments(id): list instruments in soundfont
getInstruments(s, id) ==
    IF id < 0 THEN {[s EXCEPT !.ret = <<>>]}
    ELSE { IF o.exc THEN [o EXCEPT !.exc = FALSE, !.ret = <<>>]
           ELSE [o EXCEPT !.ret = splitlines(o.ret)]
           : o \in cmd(s, "inst " \o str(id), FALSE) }

\* mutant of setInstrument: the instrument is recorded before the font is
\* looked at
setInstrument_RecordsFirst(s, instrumentName) ==
    IF instrumentName = "" THEN [s EXCEPT !.exc = TRUE]
    ELSE [s EXCEPT !.activeInstrument = instrumentName, !.ret = FALSE]

\* mutant of setInstrument: the channel's entries are appended to the tables
setInstrument_Appends(s, instrumentName) ==
    IF instrumentName = "" THEN [s EXCEPT !.exc = TRUE]
    ELSE IF s.activeSoundFontId < 0 THEN [s EXCEPT !.ret = ""]
    ELSE [s EXCEPT !.activeInstrument = instrumentName,
                   !.fontsInUse = Append(@, s.activeSoundFontId),
                   !.instrumentsInUse = Append(@, instrumentName),
                   !.ret = TRUE]

\* setInstrument(instrumentName): every statement of the try block that can
\* raise ends it with the fields assigned so far and the result False
setInstrument(s, instrumentName) ==
    LET assigned(s1, chan, font) ==
            IF s1.exc THEN [s1 EXCEPT !.exc = FALSE, !.ret = FALSE]
            ELSE IF ~IndexOk(NumChannels, chan)
            THEN [s1 EXCEPT !.activeInstrument = instrumentName, !.ret = FALSE]
            ELSE [s1 EXCEPT
                    !.activeInstrument = instrumentName,
                    !.fontsInUse[Index1(NumChannels, chan)] = font,
                    !.instrumentsInUse[Index1(NumChannels, chan)] = instrumentName,
                    !.activeChannel = getSelectedChannel(s)]
        selected(ids, chan0, font) ==
            IF Len(ids) < 2 THEN [s EXCEPT !.ret = FALSE]
            ELSE assigned(cmdNonBlocking(s, "select " \o chan0 \o " " \o font \o " "
                                             \o ids[1] \o " " \o ids[2]),
                          int(chan0), int(font))
        named(parts) ==
            IF Len(parts) = 0 THEN [s EXCEPT !.ret = FALSE]
            ELSE selected(splitOn(parts[1], "-"), str(getSelectedChannel0(s)),
                          str(s.activeSoundFontId))
    IN  IF instrumentName = "" THEN [s EXCEPT !.exc = TRUE]
        ELSE IF s.activeSoundFontId < 0 THEN [s EXCEPT !.ret = ""]
        ELSE named(split(instrumentName))

\* mutant of initSoundFont: the font is loaded before the unused ones are
\* unloaded
initSoundFont_LoadsFirst(s, sf2) ==
    UNION { { [u EXCEPT !.ret = <<-1, <<>>>>] : u \in unloadSoundFonts(l) }
            : l \in loadSoundFont(s, sf2) }

\* initSoundFont(sf2): load soundfont, select first program voice
initSoundFont(s, sf2) ==
    LET first(t, id, voices) ==
            IF t.exc THEN [t EXCEPT !.exc = FALSE, !.ret = <<-1, <<>>>>]
            ELSE [t EXCEPT !.ret = <<id, voices>>]
    IN  UNION { UNION {
            IF l.ret > -1
            THEN { IF Len(v.ret) = 0                    \* voices[0]: IndexError
                   THEN [v EXCEPT !.ret = <<-1, <<>>>>]
                   ELSE first(setInstrument(v, v.ret[1]), l.ret, v.ret)
                   : v \in getInstruments(l, l.ret) }
            ELSE { [l EXCEPT !.ret = <<-1, <<>>>>] }
            : l \in loadSoundFont(u, sf2) }
          : u \in unloadSoundFonts(s) }

\* ---------------------------------------------------------------- the calls
apiVars == <<fontFilesLoaded, fontsInUse, instrumentsInUse, selectedChannel,
             activeChannel, activeSoundFontId, activeSoundFontFile, activeInstrument>>

engineVars == <<stream, efonts, enext, egain, slowCalls>>

callVars == <<op, arg, ret, raised, sent, reads>>

\* what construction leaves behind
startVars == <<fluidsynth, args, retry, initRet, sockets, clientsocket,
               attempts, spawns, sleeps>>

lifeVars == <<startVars, pc>>

readVars == <<read_i, read_data, recvd>>

vars == <<apiVars, engineVars, callVars, lifeVars, readVars, sock, ioSockets>>

\* whether the engine may be slow during the next call
Paces == IF slowCalls < MaxSlowCalls THEN BOOLEAN ELSE {FALSE}

\* what callers pass in
FileInputs == {"a.sf2", "x.sf2"}

ChannelInputs == {0, 1, 17}

InstrumentInputs == {"", "000-012 Trumpet", "Piano"}

\* the state a call starts from: nothing sent or read yet, no exception
Self(warn, slow) ==
    [fontFilesLoaded     |-> fontFilesLoaded,
     fontsInUse          |-> fontsInUse,
     instrumentsInUse    |-> instrumentsInUse,
     selectedChannel     |-> selectedChannel,
     activeChannel       |-> activeChannel,
     activeSoundFontId   |-> activeSoundFontId,
     activeSoundFontFile |-> activeSoundFontFile,
     activeInstrument    |-> activeInstrument,
     sock   |-> sock,
     stream |-> stream,
     efonts |-> efonts,
     enext  |-> enext,
     egain  |-> egain,
     warn   |-> warn,
     slow   |-> slow,
     out    |-> "",
     sent   |-> <<>>,
     reads  |-> <<>>,
     ret    |-> "None",
     exc    |-> FALSE]

\* a call returns (or raises) in state o
Outcome(name, a, o) ==
    /\ fontFilesLoaded' = o.fontFilesLoaded
    /\ fontsInUse' = o.fontsInUse
    /\ instrumentsInUse' = o.instrumentsInUse
    /\ selectedChannel' = o.selectedChannel
    /\ activeChannel' = o.activeChannel
    /\ activeSoundFontId' = o.activeSoundFontId
    /\ activeSoundFontFile' = o.activeSoundFontFile
    /\ activeInstrument' = o.activeInstrument
    /\ sock' = o.sock
    /\ stream' = o.stream
    /\ efonts' = o.efonts
    /\ enext' = o.enext
    /\ egain' = o.egain
    /\ slowCalls' = slowCalls + (IF o.slow THEN 1 ELSE 0)
    /\ op' = name
    /\ arg' = a
    /\ ret' = (IF o.exc THEN "raised" ELSE o.ret)
    /\ raised' = o.exc
    /\ sent' = o.sent
    /\ reads' = o.reads
    /\ ioSockets' = (IF o.sent = <<>> THEN ioSockets ELSE ioSockets \cup {clientsocket})
    /\ UNCHANGED readVars

\* a call on the constructed object
Return(name, a, o) == Outcome(name, a, o) /\ UNCHANGED lifeVars

Init ==
    /\ fontFilesLoaded = <<>>
    /\ fontsInUse = [c \in 1..NumChannels |-> -1]
    /\ instrumentsInUse = [c \in 1..NumChannels |-> ""]
    /\ selectedChannel = 1
    /\ activeChannel = 1
    /\ activeSoundFontId = -1
    /\ activeSoundFontFile = ""
    /\ activeInstrument = ""
    /\ fluidsynth = "None"
    /\ args = <<>>
    /\ pc = "ready"
    /\ retry = 0
    /\ initRet = "True"
    /\ sockets = <<[connected |-> TRUE, live |-> TRUE]>>
    /\ clientsocket = 1
    /\ attempts = <<TRUE>>
    /\ spawns = 0
    /\ sleeps = 0
    /\ ioSockets = {}
    /\ sock = "open"
    /\ stream = <<>>
    \* the engine may have been running, with a font loaded, before the connect
    /\ efonts \in {<<>>, (1 :> "a.sf2")}
    /\ enext = Cardinality(DOMAIN efonts) + 1
    /\ egain = DefaultGain
    /\ slowCalls = 0
    /\ op = "idle"
    /\ arg = "None"
    /\ ret = "None"
    /\ raised = FALSE
    /\ sent = <<>>
    /\ reads = <<>>
    /\ read_i = 0
    /\ read_data = ""
    /\ recvd = <<>>

CallSetSelectedChannel ==
    /\ pc = "ready"
    /\ op = "idle"
    /\ \E channel \in ChannelInputs :
        Return("setSelectedChannel", channel, setSelectedChannel(Self(FALSE, FALSE), channel))

CallLoadSoundFont ==
    /\ pc = "ready"
    /\ op = "idle"
    /\ enext <= MaxFontId
    /\ \E sf2 \in FileInputs, warn \in BOOLEAN :
         \E o \in loadSoundFont(Self(warn, FALSE), sf2) : Return("loadSoundFont", sf2, o)

CallUnloadSoundFonts ==
    /\ pc = "ready"
    /\ op = "idle"
    /\ \E warn \in BOOLEAN :
        \E o \in unloadSoundFonts(Self(warn, FALSE)) : Return("unloadSoundFonts", "None", o)

CallSetInstrument ==
    /\ pc = "ready"
    /\ op = "idle"
    /\ \E name \in InstrumentInputs :
        Return("setInstrument", name, setInstrument(Self(FALSE, FALSE), name))

CallInitSoundFont ==
    /\ pc = "ready"
    /\ op = "idle"
    /\ enext <= MaxFontId
    /\ \E sf2 \in FileInputs, warn \in BOOLEAN :
         \E o \in initSoundFont(Self(warn, FALSE), sf2) : Return("initSoundFont", sf2, o)

\* the caller has taken the result; the client waits for the next call
Idle ==
    /\ op # "idle"
    /\ pc # "loop"
    /\ op' = "idle"
    /\ arg' = "None"
    /\ ret' = "None"
    /\ raised' = FALSE
    /\ sent' = <<>>
    /\ reads' = <<>>
    /\ read_i' = 0
    /\ read_data' = ""
    /\ recvd' = <<>>
    /\ UNCHANGED <<apiVars, engineVars, lifeVars, sock, ioSockets>>

Next ==
    \/ CallSetSelectedChannel
    \/ CallLoadSoundFont
    \/ CallUnloadSoundFonts
    \/ CallSetInstrument
    \/ CallInitSoundFont
    \/ Idle

Spec == Init /\ [][Next]_vars

\* ================================================== construction, shutdown
\* mutant of RetryCount: one more round
RetryCount_OneMore == 10 + 1

\* for i in range(10)
RetryCount == 10

\* mutant of Rebind: the socket that is replaced stays allocated
Rebind_KeepsOld(socks, cur) == socks

\* `self.clientsocket = socket.socket(...)`: the socket bound before has no
\* other owner, so rebinding the attribute releases it
Rebind(socks, cur) ==
    IF cur = 0 THEN socks ELSE [socks EXCEPT ![cur].live = FALSE]

\* connect(): a new socket is created and bound, then connected; `ok` is
\* whether the engine accepts the connection (an exception otherwise)
connect(ok) ==
    /\ sockets' = Append(Rebind(sockets, clientsocket), [connected |-> ok, live |-> TRUE])
    /\ clientsocket' = Len(sockets) + 1
    /\ sock' = (IF ok THEN "open" ELSE "unconnected")
    /\ attempts' = Append(attempts, ok)

\* initFluidSynth, first try: self.connect(); return True
InitFluidSynthConnect ==
    /\ pc = "connect"
    /\ \E ok \in BOOLEAN :
         /\ connect(ok)
         /\ pc' = (IF ok THEN "args" ELSE "spawn")
         /\ initRet' = (IF ok THEN "True" ELSE initRet)
    /\ UNCHANGED <<apiVars, engineVars, readVars, callVars, fluidsynth, args, retry,
                   spawns, sleeps, ioSockets>>

\* mutant of InitFluidSynthSpawn: the retry loop is entered whether or not
\* the process started
InitFluidSynthSpawn_RetriesAnyway ==
    /\ pc = "spawn"
    /\ \E started \in BOOLEAN :
         /\ fluidsynth' = (IF started THEN "process" ELSE fluidsynth)
         /\ spawns' = (IF started THEN spawns + 1 ELSE spawns)
    /\ pc' = "retry"
    /\ retry' = 0
    /\ UNCHANGED <<apiVars, engineVars, readVars, callVars, args, initRet, sockets,
                   clientsocket, sock, attempts, sleeps, ioSockets>>

\* initFluidSynth: subprocess.Popen(cmd, ...), which raises when the command
\* cannot be started
InitFluidSynthSpawn ==
    /\ pc = "spawn"
    /\ \E started \in BOOLEAN :
         /\ fluidsynth' = (IF started THEN "process" ELSE fluidsynth)
         /\ spawns' = (IF started THEN spawns + 1 ELSE spawns)
         /\ pc' = (IF started THEN "retry" ELSE "giveup")
    /\ retry' = 0
    /\ UNCHANGED <<apiVars, engineVars, readVars, callVars, args, initRet, sockets,
                   clientsocket, sock, attempts, sleeps, ioSockets>>

\* initFluidSynth, one round of the retry loop
InitFluidSynthRetry ==
    /\ pc = "retry"
    /\ retry < RetryCount
    /\ \E ok \in BOOLEAN :
         /\ connect(ok)
         /\ pc' = (IF ok THEN "args" ELSE "retry")
         /\ initRet' = (IF ok THEN "True" ELSE initRet)
         /\ retry' = (IF ok THEN retry ELSE retry + 1)
         /\ sleeps' = (IF ok THEN sleeps ELSE sleeps + 1)
    /\ UNCHANGED <<apiVars, engineVars, readVars, callVars, fluidsynth, args, spawns, ioSockets>>

\* initFluidSynth: the loop is exhausted or the process did not start
InitFluidSynthGiveUp ==
    /\ \/ pc = "giveup"
       \/ pc = "retry" /\ retry = RetryCount
    /\ initRet' = "False"
    /\ pc' = "args"
    /\ UNCHANGED <<apiVars, engineVars, readVars, callVars, fluidsynth, args, retry, sockets,
                   clientsocket, sock, attempts, spawns, sleeps, ioSockets>>

\* __init__: for arg in args: self.cmd(arg, True)
RECURSIVE runArgs(_, _, _)
runArgs(s, as, k) ==
    LET ran(s1) == IF s1.exc THEN s1 ELSE runArgs(s1, as, k + 1)
    IN  IF k > Len(as) THEN s ELSE ran(cmdNonBlocking(s, as[k]))

\* __init__ after initFluidSynth: its result is not looked at
InitArgs ==
    /\ pc = "args"
    /\ \E o \in {runArgs(Self(FALSE, FALSE), args, 1)} :
         /\ Outcome("__init__", args, o)
         /\ pc' = (IF o.exc THEN "raised" ELSE "ready")
    /\ UNCHANGED <<fluidsynth, args, retry, initRet, sockets, clientsocket,
                   attempts, spawns, sleeps>>

ArgsInputs == {<<>>, <<"gain 5", "reset">>}

\* (packet, non_blocking) pairs; the answer to a non-blocking command stays
\* unread, so only a command without an answer is sent that way
CmdInputs == {<<"reset", TRUE>>, <<"reset", FALSE>>, <<"fonts", FALSE>>}

CallCmd ==
    /\ pc = "ready"
    /\ op = "idle"
    /\ \E in \in CmdInputs, slow \in Paces :
         \E o \in cmd(Self(FALSE, slow), in[1], in[2]) :
             Return("cmd", in, o)

\* mutant of CallCloseFluidSynth: an engine is killed whoever started it
CallCloseFluidSynth_KillsAny ==
    /\ pc = "ready"
    /\ op = "idle"
    /\ op' = "closeFluidSynth"
    /\ arg' = "None"
    /\ ret' = (IF sock = "open" THEN "None" ELSE "raised")
    /\ raised' = (sock # "open")
    /\ sent' = <<>>
    /\ reads' = <<>>
    /\ sock' = (IF sock = "open" THEN "closed" ELSE sock)
    /\ sockets' = (IF sock = "open"
                   THEN [sockets EXCEPT ![clientsocket].live = FALSE]
                   ELSE sockets)
    /\ fluidsynth' = (IF sock = "open" THEN "killed" ELSE fluidsynth)
    /\ UNCHANGED <<apiVars, engineVars, readVars, args, pc, retry, initRet, clientsocket,
                   attempts, spawns, sleeps, ioSockets>>

\* closeFluidSynth(): self.close() is outside the try block, so an error of
\* shutdown() on a socket that is not connected leaves before kill()
CallCloseFluidSynth ==
    /\ pc = "ready"
    /\ op = "idle"
    /\ op' = "closeFluidSynth"
    /\ arg' = "None"
    /\ ret' = (IF sock = "open" THEN "None" ELSE "raised")
    /\ raised' = (sock # "open")
    /\ sent' = <<>>
    /\ reads' = <<>>
    /\ sock' = (IF sock = "open" THEN "closed" ELSE sock)
    /\ sockets' = (IF sock = "open"
                   THEN [sockets EXCEPT ![clientsocket].live = FALSE]
                   ELSE sockets)
    /\ fluidsynth' = (IF sock = "open" /\ fluidsynth = "process" THEN "killed"
                      ELSE fluidsynth)
    /\ UNCHANGED <<apiVars, engineVars, readVars, args, pc, retry, initRet, clientsocket,
                   attempts, spawns, sleeps, ioSockets>>

InitLife ==
    /\ fontFilesLoaded = <<>>
    /\ fontsInUse = [c \in 1..NumChannels |-> -1]
    /\ instrumentsInUse = [c \in 1..NumChannels |-> ""]
    /\ selectedChannel = 1
    /\ activeChannel = 1
    /\ activeSoundFontId = -1
    /\ activeSoundFontFile = ""
    /\ activeInstrument = ""
    /\ fluidsynth = "None"
    /\ args \in ArgsInputs
    /\ pc = "connect"
    /\ retry = 0
    /\ initRet = "None"
    /\ sockets = <<>>
    /\ clientsocket = 0
    /\ attempts = <<>>
    /\ spawns = 0
    /\ sleeps = 0
    /\ ioSockets = {}
    /\ sock = "none"
    /\ stream = <<>>
    /\ efonts = <<>>
    /\ enext = 1
    /\ egain = DefaultGain
    /\ slowCalls = 0
    /\ op = "idle"
    /\ arg = "None"
    /\ ret = "None"
    /\ raised = FALSE
    /\ sent = <<>>
    /\ reads = <<>>
    /\ read_i = 0
    /\ read_data = ""
    /\ recvd = <<>>

NextLife ==
    \/ InitFluidSynthConnect
    \/ InitFluidSynthSpawn
    \/ InitFluidSynthRetry
    \/ InitFluidSynthGiveUp
    \/ InitArgs
    \/ CallCmd
    \/ CallCloseFluidSynth
    \/ Idle

SpecLife == InitLife /\ [][NextLife]_vars

\* ===================================================== read(), recv by recv
\* max_reads = 1000000 # avoid infinite loop
max_reads == 1000000

\* mutant of LoopGuard: the test lets one more round in
LoopGuard_OneMore(n) == n <= max_reads

\* while i<max_reads
LoopGuard(n) == n < max_reads

\* mutant of Accumulate: the data read before is dropped
Accumulate_KeepsLast(data, part) == part

\* data += part
Accumulate(data, part) == data \o part

\* the bytes the engine has written and the client has not received
Pending == Concat(stream, Len(stream))

\* The engine has closed the connection and nothing is left to receive: recv
\* returns "" from now on.  A write of no bytes stands for the end of stream.
PeerClosed == stream = <<"">>

PacketInputs == {"reset", "fonts"}

\* mutant of inject: the end marker is sent before the blank line
inject_MarkerFirst(s1) == send(send(s1, "echo " \o eof \o "\n"), "echo \"\"\n")

\* read(): add blank line and eof marker, to tag the end of the stream
inject(s1) == send(send(s1, "echo \"\"\n"), "echo " \o eof \o "\n")

\* cmd(packet): send(packet+"\n"), then read() up to the start of its loop.
\* The three sends are outside the try block: on a connection the engine has
\* closed, send may raise and the exception leaves cmd.
CallCmdBlocking ==
    /\ pc = "ready"
    /\ op = "idle"
    /\ \E packet \in PacketInputs, broken \in BOOLEAN :
       \E s1 \in {send(Self(FALSE, FALSE), packet \o "\n")} :
         \E s3 \in {inject(s1)} :
             /\ broken => PeerClosed
             /\ op' = "cmd"
             /\ arg' = packet
             /\ raised' = broken
             /\ ret' = (IF broken THEN "raised" ELSE "None")
             /\ pc' = (IF broken THEN "ready" ELSE "loop")
             /\ sent' = (IF broken THEN <<>> ELSE s3.sent)
             /\ reads' = (IF broken THEN <<>>
                          ELSE <<[data |-> "", timedout |-> FALSE, own |-> s1.out]>>)
             /\ stream' = (IF PeerClosed THEN stream ELSE s3.stream)
             /\ efonts' = (IF PeerClosed THEN efonts ELSE s3.efonts)
             /\ enext' = (IF PeerClosed THEN enext ELSE s3.enext)
             /\ egain' = (IF PeerClosed THEN egain ELSE s3.egain)
             /\ ioSockets' = (IF broken THEN ioSockets ELSE ioSockets \cup {clientsocket})
    /\ read_i' = 0
    /\ read_data' = ""
    /\ recvd' = <<>>
    /\ UNCHANGED <<apiVars, slowCalls, sock, startVars>>

\* mutant of boundary: only the bytes of the last recv are searched
boundary_InPart(data, part) == findEof(part)

\* pos = data.find(eof): the test for the end marker after a recv
boundary(data, part) == findEof(data)

\* one round of the loop: i+=1, recv returns `part` and leaves `rest` unread,
\* data += part, and read returns if data holds the end marker
Round(part, rest) ==
    LET data == Accumulate(read_data, part)
        pos  == boundary(data, part)
        out  == IF pos > -1 THEN SubSeq(data, 1, pos) ELSE data
    IN  /\ read_i' = read_i + 1
        /\ recvd' = Append(recvd, part)
        /\ stream' = rest
        /\ read_data' = out
        /\ pc' = (IF pos > -1 THEN "ready" ELSE "loop")
        /\ ret' = (IF pos > -1 THEN out ELSE ret)
        /\ reads' = (IF pos > -1 THEN [reads EXCEPT ![1].data = out] ELSE reads)
        /\ UNCHANGED <<apiVars, efonts, enext, egain, slowCalls, op, arg, raised, sent,
                       startVars, sock, ioSockets>>

\* how many bytes a recv call may return when p is pending: all of them
\* (they are fewer than buffsize), or a fragment of one byte
RecvSizes(p) == {n \in {1, Len(p)} : 1 <= n /\ n <= Len(p)}

ReadRecvData ==
    /\ pc = "loop"
    /\ LoopGuard(read_i)
    /\ \E n \in RecvSizes(Pending) :
         Round(SubSeq(Pending, 1, n),
               IF n = Len(Pending) THEN <<>>
               ELSE <<SubSeq(Pending, n + 1, Len(Pending))>>)

\* recv raises socket.timeout: the handler prints a warning and read returns
\* data after the try block
ReadRecvTimeout ==
    /\ pc = "loop"
    /\ LoopGuard(read_i)
    /\ ~PeerClosed
    /\ slowCalls < MaxSlowCalls
    /\ slowCalls' = slowCalls + 1
    /\ read_i' = read_i + 1
    /\ pc' = "ready"
    /\ ret' = read_data
    /\ reads' = [reads EXCEPT ![1].data = read_data, ![1].timedout = TRUE]
    /\ UNCHANGED <<apiVars, stream, efonts, enext, egain, op, arg, raised, sent, startVars,
                   read_data, recvd, sock, ioSockets>>

\* recv returns "": the engine closed the connection; what it had not yet
\* delivered is lost.  On a closed connection the rounds before the last two
\* are taken by ReadDrain.
ReadRecvClosed ==
    /\ pc = "loop"
    /\ LoopGuard(read_i)
    /\ PeerClosed => read_i >= max_reads - 2
    /\ Round("", <<"">>)

\* On a closed connection every round is the same as long as the test of the
\* loop lets it in: part is "", data stays as it is and holds no end marker.
\* All rounds but the last two are taken in one step.
ReadDrain ==
    /\ pc = "loop"
    /\ PeerClosed
    /\ read_i < max_reads - 2
    /\ \A n \in {read_i, max_reads - 3} : LoopGuard(n)
    /\ Accumulate(read_data, "") = read_data
    /\ findEof(read_data) = -1
    /\ read_i' = max_reads - 2
    /\ UNCHANGED <<apiVars, engineVars, callVars, lifeVars, read_data, recvd,
                   sock, ioSockets>>

\* the test of the loop fails: read returns data after the try block
ReadExhausted ==
    /\ pc = "loop"
    /\ ~LoopGuard(read_i)
    /\ pc' = "ready"
    /\ ret' = read_data
    /\ reads' = [reads EXCEPT ![1].data = read_data]
    /\ UNCHANGED <<apiVars, engineVars, op, arg, raised, sent, startVars,
                   readVars, sock, ioSockets>>

ReadLoop ==
    \/ ReadRecvData
    \/ ReadRecvTimeout
    \/ ReadRecvClosed
    \/ ReadDrain
    \/ ReadExhausted

NextRead ==
    \/ CallCmdBlocking
    \/ ReadLoop
    \/ Idle

\* recv returns within readtimeout, so the loop keeps making rounds
SpecRead == Init /\ [][NextRead]_vars /\ WF_vars(ReadLoop)

\* ====================================== loading on any kind of connection
\* construction and shutdown as in SpecLife, and loadSoundFont on the client
\* they leave: connected, never connected, or closed
NextLoad ==
    \/ NextLife
    \/ CallLoadSoundFont

SpecLoad == InitLife /\ [][NextLoad]_vars

\* ================================================================== gain
\* the values the gain slider gives: (0..100) / 20.0, in thousandths
GainInputs == {0, 50, 2500, 5000}

CallSetGain ==
    /\ pc = "ready"
    /\ op = "idle"
    /\ \E value \in GainInputs :
         Return("setGain", value, setGain(Self(FALSE, FALSE), value))

CallGetGain ==
    /\ pc = "ready"
    /\ op = "idle"
    /\ \E slow \in Paces :
         \E o \in getGain(Self(FALSE, slow)) : Return("getGain", "None", o)

NextGain ==
    \/ CallSetGain
    \/ CallGetGain
    \/ Idle

SpecGain == Init /\ [][NextGain]_vars

\* ========================================== instruments on every channel
\* The client after it has loaded a font to which the engine gave the id
\* ActiveFontId, with any of the 16 channels selected.
ActiveFontId == 4

InitSelect ==
    /\ fontFilesLoaded = (ActiveFontId :> "a.sf2")
    /\ fontsInUse = [c \in 1..NumChannels |-> -1]
    /\ instrumentsInUse = [c \in 1..NumChannels |-> ""]
    /\ selectedChannel \in 1..NumChannels
    /\ activeChannel = 1
    /\ activeSoundFontId = ActiveFontId
    /\ activeSoundFontFile = "a.sf2"
    /\ activeInstrument = ""
    /\ fluidsynth = "None"
    /\ args = <<>>
    /\ pc = "ready"
    /\ retry = 0
    /\ initRet = "True"
    /\ sockets = <<[connected |-> TRUE, live |-> TRUE]>>
    /\ clientsocket = 1
    /\ attempts = <<TRUE>>
    /\ spawns = 0
    /\ sleeps = 0
    /\ ioSockets = {}
    /\ sock = "open"
    /\ stream = <<>>
    /\ efonts = (ActiveFontId :> "a.sf2")
    /\ enext = ActiveFontId + 1
    /\ egain = DefaultGain
    /\ slowCalls = 0
    /\ op = "idle"
    /\ arg = "None"
    /\ ret = "None"
    /\ raised = FALSE
    /\ sent = <<>>
    /\ reads = <<>>
    /\ read_i = 0
    /\ read_data = ""
    /\ recvd = <<>>

NextSelect ==
    \/ CallSetSelectedChannel
    \/ CallSetInstrument
    \/ Idle

SpecSelect == InitSelect /\ [][NextSelect]_vars

\* ============================================================== listings
\* getSoundFonts and getInstruments on a connection that may hold answers
\* nobody read: those of commands sent without waiting, and those a read
\* that timed out left behind.
MaxUnread == 2

\* commands a caller sends without waiting for the answer
UnreadInputs == {"load \"a.sf2\"", "fonts"}

\* font ids a caller asks the instruments of
FontIdInputs == {-1, 1, 3}

CallCmdNonBlocking ==
    /\ pc = "ready"
    /\ op = "idle"
    /\ Len(stream) < MaxUnread
    /\ enext <= MaxFontId
    /\ \E packet \in UnreadInputs :
         Return("cmd", <<packet, TRUE>>, cmdNonBlocking(Self(FALSE, FALSE), packet))

CallGetSoundFonts ==
    /\ pc = "ready"
    /\ op = "idle"
    /\ \E slow \in Paces :
         \E o \in getSoundFonts(Self(FALSE, slow)) : Return("getSoundFonts", "None", o)

CallGetInstruments ==
    /\ pc = "ready"
    /\ op = "idle"
    /\ \E id \in FontIdInputs, slow \in Paces :
         \E o \in getInstruments(Self(FALSE, slow), id) : Return("getInstruments", id, o)

NextList ==
    \/ CallCmdNonBlocking
    \/ CallGetSoundFonts
    \/ CallGetInstruments
    \/ Idle

SpecList == Init /\ [][NextList]_vars

\* ============================================ the client and its engine
\* An engine that starts with no font loaded and is driven by this client
\* only; it may be slow, so that a read times out.
InitSync ==
    /\ Init
    /\ efonts = <<>>

CallLoadSoundFontPaced ==
    /\ pc = "ready"
    /\ op = "idle"
    /\ enext <= MaxFontId
    /\ \E sf2 \in FileInputs, slow \in Paces :
         \E o \in loadSoundFont(Self(FALSE, slow), sf2) : Return("loadSoundFont", sf2, o)

NextSync ==
    \/ CallLoadSoundFontPaced
    \/ CallUnloadSoundFonts
    \/ CallSetInstrument
    \/ CallInitSoundFont
    \/ Idle

SpecSync == InitSync /\ [][NextSync]_vars

\* ================================================= one font after another
\* A caller that puts a font on each channel in turn and then goes on trying
\* fonts on the last channel, on an engine that starts without fonts and may
\* get slow once all the channels are in use.
MaxInits == 18

\* setSelectedChannel(next channel), once the selected one has an instrument
CallNextChannel ==
    /\ pc = "ready"
    /\ op = "idle"
    /\ selectedChannel < NumChannels
    /\ fontsInUse[selectedChannel] # -1
    /\ Return("setSelectedChannel", selectedChannel + 1,
              setSelectedChannel(Self(FALSE, FALSE), selectedChannel + 1))

CallInitSoundFontPaced ==
    /\ pc = "ready"
    /\ op = "idle"
    /\ enext <= MaxInits
    /\ fontsInUse[selectedChannel] = -1 \/ selectedChannel = NumChannels
    /\ \E slow \in (IF enext > NumChannels THEN Paces ELSE {FALSE}) :
         \E o \in initSoundFont(Self(FALSE, slow), "a.sf2") :
             Return("initSoundFont", "a.sf2", o)

NextFill ==
    \/ CallNextChannel
    \/ CallInitSoundFontPaced
    \/ Idle

SpecFill == InitSync /\ [][NextFill]_vars

\* ================================================================ claims
UnloadCmd(id) == "unload " \o str(id) \o "\n"

IsUnloadCmd(packet) == Len(packet) >= 7 /\ SubSeq(packet, 1, 7) = "unload "

WasSent(log, packet) == \E i \in 1..Len(log) : log[i] = packet

\* C1: every channel slot holds -1 or an id that is a key of the loaded-font map.
C1_SlotsReferToLoadedFonts ==
    \A c \in 1..NumChannels :
        fontsInUse[c] = -1 \/ fontsInUse[c] \in DOMAIN fontFilesLoaded

\* C2: a call of unloadSoundFonts (alone or as the first step of initSoundFont)
\* sends no unload command for an id that is in a channel slot when it is
\* called, and removes no such id from the loaded-font map.
C2_InUseNeverUnloaded ==
    [][op' \in {"unloadSoundFonts", "initSoundFont"} =>
          \A c \in 1..NumChannels :
              /\ ~WasSent(sent', UnloadCmd(fontsInUse[c]))
              /\ fontsInUse[c] \in DOMAIN fontFilesLoaded
                   => fontsInUse[c] \in DOMAIN fontFilesLoaded']_vars

\* C2 witness: unloadSoundFonts ran while the engine listed a font that is in
\* use, kept it, and unloaded another one.
C2_Witness ==
    /\ op = "unloadSoundFonts"
    /\ \E c \in 1..NumChannels :
          /\ fontsInUse[c] \in DOMAIN efonts
          /\ fontsInUse[c] \in DOMAIN fontFilesLoaded
    /\ \E i \in 1..Len(sent) : IsUnloadCmd(sent[i])

\* C3: a blocking cmd whose read did not time out returns exactly the engine's
\* output for its own command.
C3_ReadReturnsOwnOutput ==
    \A i \in 1..Len(reads) :
        ~reads[i].timedout => reads[i].data = reads[i].own

\* C4: one call of unloadSoundFonts sends an unload command for every font the
\* engine holds that is in no channel slot, and afterwards none of them is a
\* key of the loaded-font map.
C4_UnloadsEveryUnreferenced ==
    [][op' = "unloadSoundFonts" =>
          \A id \in DOMAIN efonts :
              ~InUse(id, fontsInUse) =>
                  /\ WasSent(sent', UnloadCmd(id))
                  /\ id \notin DOMAIN fontFilesLoaded']_vars

\* C5: when initSoundFont returns a font id (here: one the engine really
\* holds), the slot of the selected channel holds that id and the first
\* listed instrument.
C5_InitSuccessAssignsSlot ==
    (op = "initSoundFont" /\ ret[1] > -1 /\ ret[1] \in DOMAIN efonts) =>
        /\ Len(ret[2]) > 0
        /\ IndexOk(NumChannels, selectedChannel - 1)
        /\ fontsInUse[Index1(NumChannels, selectedChannel - 1)] = ret[1]
        /\ instrumentsInUse[Index1(NumChannels, selectedChannel - 1)] = ret[2][1]

\* C6: when the engine answers a load with "loaded SoundFont has ID n" (and the
\* read returned that answer), loadSoundFont returns n and maps n to the file.
C6_LoadReturnsAssignedId ==
    (/\ op = "loadSoundFont"
     /\ Len(reads) = 1
     /\ reads[1].data = reads[1].own
     /\ find(reads[1].own, "loaded SoundFont has ID " \o str(enext - 1) \o "\n") = 0)
    => /\ ret = enext - 1
       /\ ret \in DOMAIN fontFilesLoaded
       /\ fontFilesLoaded[ret] = arg

\* C7: initFluidSynth tries to connect first; it starts the process only after
\* that attempt failed and then makes at most 10 more attempts, a sleep after
\* each failed one; no attempt follows a successful one; it returns True right
\* at the successful attempt and False only when every attempt failed.
C7_StartupAttempts ==
    LET n == Len(attempts)
    IN  /\ n <= 11
        /\ spawns <= 1
        /\ spawns = 1 => (n >= 1 /\ ~attempts[1])
        /\ n > 1 => spawns = 1
        /\ \A k \in 1..(n - 1) : ~attempts[k]
        /\ sleeps = Cardinality({k \in 2..n : ~attempts[k]})
        /\ (n >= 1 /\ attempts[n]) <=> initRet = "True"
        /\ initRet = "False" => \A k \in 1..n : ~attempts[k]
        /\ pc \in {"args", "ready", "raised"} => initRet \in {"True", "False"}

\* C7 witness: the first attempt failed, the process was started, and the
\* third retry succeeded: True was returned after four attempts.
C7_Witness ==
    /\ initRet = "True"
    /\ Len(attempts) = 4
    /\ spawns = 1
    /\ sleeps = 2

C9_ReadLoopReturns ==
    /\ [](read_i <= 1000000)
    /\ (pc = "loop") ~> (pc = "ready" /\ op = "cmd" /\ ~raised)

\* C9 witness: the engine closed the connection and cmd returned after
\* exactly 1,000,000 recv calls.
C9_Witness ==
    /\ pc = "ready"
    /\ op = "cmd"
    /\ ~raised
    /\ read_i = 1000000
    /\ PeerClosed

\* C10: when recv times out, cmd returns the concatenation of what the recv
\* calls before returned, and no exception reaches the caller.
C10_TimeoutReturnsAccumulated ==
    [][(pc = "loop" /\ pc' = "ready" /\ reads'[1].timedout)
         => /\ ret' = Concat(recvd, Len(recvd))
            /\ recvd' = recvd
            /\ ~raised']_vars

\* C10 witness: two recv calls returned bytes of the answer, the third timed
\* out, and cmd returned those bytes.
C10_Witness ==
    /\ pc = "ready"
    /\ op = "cmd"
    /\ reads[1].timedout
    /\ Len(recvd) = 2
    /\ ret = recvd[1] \o recvd[2]
    /\ ~raised

\* C11: a blocking cmd is still in its loop only while the bytes received so
\* far hold no end marker, and when it returns on the marker it returns what
\* precedes the first marker of the byte stream (received and pending bytes
\* together), however the stream is cut into recv results.
C11_CumulativeMatch ==
    /\ [](pc = "loop" => findEof(Concat(recvd, Len(recvd))) = -1)
    /\ [][(pc = "loop" /\ pc' = "ready" /\ findEof(Concat(recvd', Len(recvd'))) > -1)
            => LET whole == Concat(recvd, Len(recvd)) \o Pending
               IN  ret' = SubSeq(whole, 1, findEof(whole))]_vars

\* C11 witness: the answer and the end marker arrived byte by byte, the
\* marker in three recv calls, and cmd returned the answer.
C11_Witness ==
    /\ pc = "ready"
    /\ op = "cmd"
    /\ Len(recvd) = 12
    /\ SubSeq(recvd, 10, 12) = <<"\n", ".", "\n">>
    /\ ret = "ID  Name\n"
    /\ ~reads[1].timedout

C13_SelectUpdatesOneSlot ==
    [][(/\ op' = "setInstrument"
        /\ arg' # ""
        /\ activeSoundFontId >= 0
        /\ selectedChannel \in 1..16
        /\ ret' = TRUE)
         => /\ fontsInUse' = [fontsInUse EXCEPT ![selectedChannel] = activeSoundFontId]
            /\ instrumentsInUse' = [instrumentsInUse EXCEPT ![selectedChannel] = arg']
            /\ activeChannel' = selectedChannel
            /\ activeInstrument' = arg'
            /\ UNCHANGED <<fontFilesLoaded, selectedChannel, activeSoundFontId,
                           activeSoundFontFile>>]_vars

\* C13 witness: with channel 3 selected the Trumpet was put into the third
\* slot and the 15 other slots are still unassigned.
C13_Witness ==
    /\ op = "setInstrument"
    /\ arg = "000-012 Trumpet"
    /\ selectedChannel = 3
    /\ activeChannel = 3
    /\ activeInstrument = "000-012 Trumpet"
    /\ fontsInUse[3] = ActiveFontId
    /\ instrumentsInUse[3] = "000-012 Trumpet"
    /\ \A c \in (1..16) \ {3} : fontsInUse[c] = -1 /\ instrumentsInUse[c] = ""

\* a name whose first word is three digits, "-", three digits
HasBankProg(name) ==
    /\ Len(split(name)) > 0
    /\ Len(split(name)[1]) = 7
    /\ isdigit(SubSeq(split(name)[1], 1, 3))
    /\ Char(split(name)[1], 4) = "-"
    /\ isdigit(SubSeq(split(name)[1], 5, 7))

\* C14: for a name that starts with BBB-PPP, an active font f >= 0 and a
\* selected channel c in 1..16, setInstrument sends the one line
\* "select <c-1> <f> BBB PPP" and reads nothing.
C14_SelectCommandText ==
    [][(/\ op' = "setInstrument"
        /\ HasBankProg(arg')
        /\ activeSoundFontId >= 0
        /\ selectedChannel \in 1..16)
         => /\ sent' = << "select " \o str(selectedChannel - 1) \o " "
                          \o str(activeSoundFontId) \o " "
                          \o SubSeq(arg', 1, 3) \o " " \o SubSeq(arg', 5, 7) \o "\n" >>
            /\ reads' = <<>>
            /\ stream' = stream]_vars

\* C14 witness: "000-012 Trumpet" with font 4 active and channel 3 selected
\* was sent as "select 2 4 000 012".
C14_Witness ==
    /\ op = "setInstrument"
    /\ arg = "000-012 Trumpet"
    /\ selectedChannel = 3
    /\ activeSoundFontId = 4
    /\ sent = <<"select 2 4 000 012\n">>
    /\ reads = <<>>

\* C15: when the transaction of loadSoundFont raises, or the answer it
\* reads holds no all-digit word, loadSoundFont returns -1; and whenever it
\* returns -1 no field of the client has changed.
C15_FailedLoadChangesNothing ==
    [][op' = "loadSoundFont"
         => /\ (\/ Len(reads') = 0
                \/ SelectSeq(split(reads'[1].data), isdigit) = <<>>) => ret' = -1
            /\ ret' = -1 => UNCHANGED apiVars
            /\ ~raised']_vars

\* C15 witness: font 1 is loaded and active, then the load of a file the
\* engine cannot open returned -1.
C15_Witness ==
    /\ op = "loadSoundFont"
    /\ arg = "x.sf2"
    /\ ret = -1
    /\ Len(reads) = 1
    /\ activeSoundFontId = 1
    /\ fontFilesLoaded = (1 :> "a.sf2")

\* C16: right after a call of unloadSoundFonts, a second call (nothing
\* loaded or selected in between) sends no unload command and leaves the
\* font map as it is.
C16_SecondUnloadSendsNothing ==
    op = "unloadSoundFonts" =>
        \A warn \in BOOLEAN :
            \A o \in unloadSoundFonts(Self(warn, FALSE)) :
                /\ \A i \in 1..Len(o.sent) : ~IsUnloadCmd(o.sent[i])
                /\ o.fontFilesLoaded = fontFilesLoaded

\* C17: getGain() called right after setGain(v) returns v (a float result is
\* written here as str() writes it).
C17_GetGainReturnsSetValue ==
    (op = "setGain" /\ ~raised) =>
        \A o \in getGain(Self(FALSE, FALSE)) : ~o.exc /\ o.ret = strFloat(arg)

\* C18: setGain(v) sends two lines and reads nothing: "gain" with a number
\* that reads as v, then "set synth.gain" with a number that reads as 2*v;
\* afterwards the engine's synth.gain is 2*v.
C18_SetGainSendsBoth ==
    [][op' = "setGain"
         => /\ Len(sent') = 2
            /\ Len(split(sent'[1])) = 2
            /\ split(sent'[1])[1] = "gain"
            /\ ParseNum(split(sent'[1])[2]) = arg'
            /\ Len(split(sent'[2])) = 3
            /\ SubSeq(split(sent'[2]), 1, 2) = <<"set", "synth.gain">>
            /\ ParseNum(split(sent'[2])[3]) = 2 * arg'
            /\ reads' = <<>>
            /\ stream' = stream
            /\ egain' = 2 * arg']_vars

\* C18 witness: setGain(2.5) sent "gain 2.5" and "set synth.gain 5.0" and the
\* engine's synth.gain is 5.
C18_Witness ==
    /\ op = "setGain"
    /\ arg = 2500
    /\ sent = <<"gain 2.5\n", "set synth.gain 5.0\n">>
    /\ egain = 5000

\* C19: no call of loadSoundFont, unloadSoundFonts, setInstrument or
\* initSoundFont lets an exception reach its caller, whatever the engine
\* answers and whatever name is passed.
C19_NoOperationRaises ==
    op \in {"loadSoundFont", "unloadSoundFonts", "setInstrument", "initSoundFont"}
        => ~raised

\* C20: closeFluidSynth never lets an exception reach its caller, and when
\* it returns a process this client started has been killed.
C20_ShutdownSwallowsErrors ==
    op = "closeFluidSynth" => ~raised /\ fluidsynth # "process"

\* the first word of a line, "" for a blank line
FirstToken(line) == IF split(line) = <<>> THEN "" ELSE split(line)[1]

IntLine(line) == isInt(FirstToken(line))

\* C21: getSoundFonts returns, in order, the integer value of the first word
\* of every line of the data it read whose first word is an integer; the
\* header, blank lines and other lines are left out and end nothing.
C21_ListsIntegerFirstTokens ==
    op = "getSoundFonts" =>
        /\ ~raised
        /\ Len(reads) = 1
        /\ Len(ret) = Len(SelectSeq(splitlines(reads[1].data), IntLine))
        /\ \A i \in 1..Len(ret) :
              ret[i] = int(FirstToken(SelectSeq(splitlines(reads[1].data), IntLine)[i]))

\* an answer nobody read ("loaded SoundFont has ID 1") precedes the header
\* and the lines of fonts 1 and 2
C21_Witness ==
    /\ op = "getSoundFonts"
    /\ ret = <<1, 2>>
    /\ Len(reads) = 1
    /\ FirstToken(splitlines(reads[1].data)[1]) = "loaded"
    /\ Len(splitlines(reads[1].data)) = 4

\* the number of lines of a text: its line ends, and an unfinished last line
RECURSIVE NumLines(_)
NumLines(text) ==
    IF text = "" THEN 0
    ELSE IF find(text, "\n") = -1 THEN 1
    ELSE 1 + NumLines(SubSeq(text, find(text, "\n") + 2, Len(text)))

\* C22: getInstruments with a negative id returns the empty list without a
\* write or a read; with any other id it writes one `inst <id>` command and
\* its two end-marker lines, reads once, and returns one entry per line read.
C22_NegativeIdNoRoundTrip ==
    [][op' = "getInstruments" =>
        IF arg' < 0
        THEN ret' = <<>> /\ sent' = <<>> /\ reads' = <<>> /\ stream' = stream
        ELSE /\ sent' = <<"inst " \o str(arg') \o "\n", "echo \"\"\n", "echo .\n">>
             /\ Len(reads') = 1
             /\ Len(ret') = NumLines(reads'[1].data)]_vars

C22_Witness ==
    /\ op = "getInstruments"
    /\ arg = -1
    /\ stream # <<>>
    /\ ret = <<>>

\* the command word of a line that was sent
CmdWord(packet) == FirstToken(packet)

\* the select command for the instrument line `voice` of font id on channel
SelectCmd(channel, id, voice) ==
    "select " \o str(channel - 1) \o " " \o str(id) \o " "
        \o splitOn(FirstToken(voice), "-")[1] \o " "
        \o splitOn(FirstToken(voice), "-")[2] \o "\n"

\* C23: the lines initSoundFont sends are, in this order, the font listing
\* and the unload commands, one load command, the instrument listing, the
\* select of the first listed instrument; when the answer to the load holds
\* no id, nothing is sent after the load and its end marker.
C23_InitOrder ==
    op = "initSoundFont" =>
        /\ sent[1] = "fonts\n"
        /\ Cardinality({i \in 1..Len(sent) : CmdWord(sent[i]) = "load"}) = 1
        /\ \A i, j \in 1..Len(sent) :
              /\ CmdWord(sent[i]) \in {"fonts", "unload"} /\ CmdWord(sent[j]) = "load" => i < j
              /\ CmdWord(sent[i]) = "load" /\ CmdWord(sent[j]) \in {"inst", "select"} => i < j
              /\ CmdWord(sent[i]) = "inst" /\ CmdWord(sent[j]) = "select" => i < j
        /\ Len(reads) >= 2
        /\ SelectSeq(split(reads[2].data), isdigit) = <<>> =>
              /\ Len(reads) = 2
              /\ CmdWord(sent[Len(sent) - 2]) = "load"
        /\ \A i \in 1..Len(sent) :
              CmdWord(sent[i]) = "select" =>
                  /\ i = Len(sent)
                  /\ Len(reads) = 3
                  /\ sent[i] = SelectCmd(selectedChannel, ret[1], splitlines(reads[3].data)[1])

\* a font nobody uses is unloaded, a.sf2 is loaded as font 2, its
\* instruments are listed and the first one is selected
C23_Witness ==
    /\ op = "initSoundFont"
    /\ Len(sent) = 11
    /\ sent[4] = "unload 1\n"
    /\ sent[5] = "load \"a.sf2\"\n"
    /\ sent[8] = "inst 2\n"
    /\ sent[11] = "select 0 2 000 000\n"

\* C24: a blocking cmd has written exactly three lines when its first recv
\* is made, and writes nothing afterwards: the command and a newline, the
\* echo of an empty line, the echo of the end marker.
C24_ThreeLinesBeforeRead ==
    [][/\ (pc' = "loop" \/ (op' = "cmd" /\ ~raised')) =>
             sent' = <<arg' \o "\n", "echo \"\"\n", "echo .\n">>
       /\ read_i' > read_i =>
             /\ sent = <<arg \o "\n", "echo \"\"\n", "echo .\n">>
             /\ sent' = sent]_vars

\* the first recv of cmd('fonts') has returned one byte
C24_Witness ==
    /\ pc = "loop"
    /\ read_i = 1
    /\ recvd = <<"I">>
    /\ sent = <<"fonts\n", "echo \"\"\n", "echo .\n">>

\* C25: a non-blocking cmd writes one line, the command and a newline, and
\* returns True; it writes no end marker, reads nothing, and takes nothing
\* from the answers waiting on the socket.
C25_NonBlockingWritesOnce ==
    [][op' = "cmd" /\ arg'[2] =>
          /\ ~raised'
          /\ sent' = <<arg'[1] \o "\n">>
          /\ reads' = <<>>
          /\ Len(stream') >= Len(stream)
          /\ SubSeq(stream', 1, Len(stream)) = stream
          /\ ret' = TRUE]_vars

\* cmd('fonts', True) has returned and the listing waits unread
C25_Witness ==
    /\ op = "cmd"
    /\ sent = <<"fonts\n">>
    /\ reads = <<>>
    /\ stream = <<"ID  Name\n">>

\* the ids a call of loadSoundFont returned during the step just taken: the
\* call itself, or the one initSoundFont makes (its read is the second one)
ReturnedByLoad(name, result, log) ==
    IF name = "loadSoundFont" THEN {result} \ {-1}
    ELSE IF name = "initSoundFont" /\ Len(log) >= 2
    THEN {int(w) : w \in {SelectSeq(split(log[2].data), isdigit)[n]
                          : n \in {Len(SelectSeq(split(log[2].data), isdigit))} \ {0}}}
    ELSE {}

\* C26: the keys of fontFilesLoaded after a step are the keys before it,
\* without those an unload command was sent for, and with the id a
\* loadSoundFont call returned; so a key is there exactly if a load returned
\* it and no unload was sent for it since.
C26_MapTracksLoadsAndUnloads ==
    [][DOMAIN fontFilesLoaded' =
          ({id \in DOMAIN fontFilesLoaded : ~WasSent(sent', UnloadCmd(id))}
           \cup ReturnedByLoad(op', ret', reads'))]_vars

\* font 1 was loaded by this client and is unloaded again
C26_Witness ==
    /\ op = "unloadSoundFonts"
    /\ activeSoundFontId = 1
    /\ WasSent(sent, UnloadCmd(1))
    /\ fontFilesLoaded = <<>>

\* C27: fontsInUse and instrumentsInUse have 16 slots each, whatever was
\* called and whatever channel is selected.
C27_SixteenSlots ==
    /\ DOMAIN fontsInUse = 1..16
    /\ DOMAIN instrumentsInUse = 1..16

\* with channel 17 selected the select command was sent and the assignment
\* to slot 16 (base 0) failed
C27_Witness ==
    /\ op = "setInstrument"
    /\ selectedChannel = 17
    /\ sent # <<>>
    /\ ret = FALSE

\* a channel slot nothing was assigned to
Unassigned(fonts, instruments, c) == fonts[c] = -1 /\ instruments[c] = ""

\* C28: a channel slot that holds an assignment holds one after every step.
C28_AssignedStaysAssigned ==
    [][\A c \in 1..NumChannels :
          ~Unassigned(fontsInUse, instrumentsInUse, c)
              => ~Unassigned(fontsInUse', instrumentsInUse', c)]_vars

\* channel 1 is still assigned after a pass of unloadSoundFonts that sent an
\* unload command
C28_Witness ==
    /\ op = "unloadSoundFonts"
    /\ ~Unassigned(fontsInUse, instrumentsInUse, 1)
    /\ \E i \in 1..Len(sent) : IsUnloadCmd(sent[i])

\* C29: activeSoundFontId is -1 or a key of fontFilesLoaded, and then
\* activeSoundFontFile is the file stored under that key.
C29_ActiveFontIsLoaded ==
    \/ activeSoundFontId = -1
    \/ /\ activeSoundFontId \in DOMAIN fontFilesLoaded
       /\ fontFilesLoaded[activeSoundFontId] = activeSoundFontFile

\* C30: after loadSoundFont, unloadSoundFonts, setInstrument or initSoundFont
\* has returned, the keys of fontFilesLoaded are the ids of the fonts the
\* engine holds.
C30_MapMatchesEngine ==
    op \in {"loadSoundFont", "unloadSoundFonts", "setInstrument", "initSoundFont"}
        => DOMAIN fontFilesLoaded = DOMAIN efonts

C32_ChannelChecked ==
    [][op' = "setInstrument" =>
          IF selectedChannel \in 1..16
          THEN /\ \A c \in (1..NumChannels) \ {selectedChannel} :
                     /\ fontsInUse'[c] = fontsInUse[c]
                     /\ instrumentsInUse'[c] = instrumentsInUse[c]
               /\ \A i \in 1..Len(sent') :
                     split(sent'[i])[2] = str(selectedChannel - 1)
          ELSE /\ sent' = <<>>
               /\ UNCHANGED <<fontsInUse, instrumentsInUse, activeInstrument,
                              activeChannel>>]_vars

\* C33: the engine never holds more than 17 fonts and fontFilesLoaded never
\* has more than 17 keys when fonts are loaded by initSoundFont only.
C33_AtMostSeventeenFonts ==
    /\ Cardinality(DOMAIN efonts) <= 17
    /\ Cardinality(DOMAIN fontFilesLoaded) <= 17

\* C34: the process is started at most once, in a step that follows the one
\* failed first connection attempt; when it did not start, no connection
\* attempt follows and initFluidSynth returns False.
C34_SpawnOnceAfterFailure ==
    /\ [](/\ spawns <= 1
          /\ (spawns = 0 /\ pc \in {"args", "ready", "raised"} /\ ~attempts[1]) =>
                (attempts = <<FALSE>> /\ initRet = "False" /\ fluidsynth = "None"))
    /\ [][/\ spawns' # spawns =>
                (spawns = 0 /\ spawns' = 1 /\ attempts = <<FALSE>> /\ attempts' = attempts)
          /\ (pc = "spawn" /\ spawns' = spawns) =>
                (attempts' = attempts /\ pc' = "giveup")
          /\ pc = "giveup" =>
                (attempts' = attempts /\ initRet' = "False" /\ pc' = "args")]_vars

\* the first attempt failed, the process did not start, and __init__ is over
C34_Witness ==
    /\ pc = "ready"
    /\ spawns = 0
    /\ fluidsynth = "None"
    /\ attempts = <<FALSE>>
    /\ initRet = "False"

\* C35: a process is killed only in closeFluidSynth and only if this client
\* started it; a client whose first connection attempt succeeded holds no
\* process, and its closeFluidSynth closes the socket and kills nothing.
C35_KillsOnlyOwnProcess ==
    /\ [](/\ (attempts # <<>> /\ attempts[1]) => (spawns = 0 /\ fluidsynth = "None")
          /\ (op = "closeFluidSynth" /\ attempts = <<TRUE>> /\ ~raised) => sock = "closed")
    /\ [][fluidsynth' # fluidsynth /\ fluidsynth' = "killed" =>
             (fluidsynth = "process" /\ spawns = 1 /\ op' = "closeFluidSynth")]_vars

\* the engine was running already; closeFluidSynth has closed the socket
C35_Witness ==
    /\ op = "closeFluidSynth"
    /\ attempts = <<TRUE>>
    /\ sock = "closed"
    /\ fluidsynth = "None"
    /\ ~raised

====
